---- MODULE Spec2Model ----
(***************************************************************************)
(* Model of streamlit_financial_dashboard.py: one Streamlit script that is *)
(* run top to bottom on every page load or widget interaction (a "render   *)
(* pass").  A pass reads the API key, fetches articles, builds one record  *)
(* per article, renders a table and three charts, offers a CSV export and  *)
(* finally analyses one user-supplied URL.                                 *)
(*                                                                         *)
(* Python values are tagged records: None, a str (a sequence of word       *)
(* tokens, so that + is \o), a dict, a parsed date-time or NaT.  A JSON    *)
(* key that is not present is Absent.  Compound scores are integers in     *)
(* hundredths (0.05 is 5).                                                 *)
(***************************************************************************)
EXTENDS Integers, Sequences, FiniteSets, TLC

VARIABLES
    pc,            \* position of the pass in the script
    api_key,       \* line 11: sidebar text input
    status_code,   \* line 27: response.status_code (0 before the request)
    requests,      \* number of requests.get calls issued in this pass
    articles,      \* line 32
    data,          \* line 35
    scored,        \* texts passed to analyzer.polarity_scores in this pass
    df,            \* line 50
    styled_df,     \* line 57
    sentiment_counts, \* line 65
    df_sorted,     \* line 90
    csv,           \* line 101: payload of the download button
    custom_url,    \* line 105
    analysis,      \* lines 107-121: outcome of the single-URL analysis
    rendered,      \* elements written to the page in this pass, in order
    error          \* uncaught exception that ended the pass, or "none"

vars == <<pc, api_key, status_code, requests, articles, data, scored, df,
          styled_df, sentiment_counts, df_sorted, csv, custom_url, analysis,
          rendered, error>>

----------------------------------------------------------------------------
(* Bounds of the model *)

\* longest article list a response carries (the request asks for pageSize 15)
MaxArticles == 2

----------------------------------------------------------------------------
(* Python and JSON values *)

None == [t |-> "None"]
Absent == [t |-> "absent"]
Str(s) == [t |-> "str", v |-> s]
Dict(name) == [t |-> "dict", name |-> name]
Datetime(n) == [t |-> "datetime", v |-> n]
NaT == [t |-> "NaT"]
List(l) == [t |-> "list", v |-> l]

EmptyStr == Str(<<>>)

\* bool(x) for the values that occur: None and "" are falsy
Truthy(x) == x # None /\ x # EmptyStr

\* x or d
Or(x, d) == IF Truthy(x) THEN x ELSE d

\* d.get(key): the value of a field, None when the key is not present
Get(field) == IF field = Absent THEN None ELSE field

\* d.get(key, default)
GetDefault(field, default) == IF field = Absent THEN default ELSE field

\* a + b on two str values
Concat(a, b) == Str(a.v \o b.v)

----------------------------------------------------------------------------
(* Input universe *)

T1 == Str(<<"2024-01-01T00:00:00Z">>)
T2 == Str(<<"2024-01-02T00:00:00Z">>)
BadTime == Str(<<"yesterday">>)

BaseTitle == Str(<<"up">>)
BaseDescription == Str(<<"dip">>)
BaseSource == Dict(Str(<<"Reuters">>))

TitleValues == {BaseTitle, Absent, None, EmptyStr, Str(<<"down">>)}
DescriptionValues == {BaseDescription, Absent, None, Str(<<"crash">>)}
SourceValues == {BaseSource, Absent, None, Dict(Absent), Dict(None)}
TimeValues == {T1, T2, Absent, None, BadTime}

Deviations(a) ==
    (IF a.title = BaseTitle THEN 0 ELSE 1)
    + (IF a.description = BaseDescription THEN 0 ELSE 1)
    + (IF a.source = BaseSource THEN 0 ELSE 1)
    + (IF a.publishedAt \in {T1, T2} THEN 0 ELSE 1)

\* article objects of a response: every field value occurs, at most one
\* field of an article departs from the well-formed baseline
RawArticles ==
    {a \in [title : TitleValues, description : DescriptionValues,
            url : {Str(<<"http://news/1">>)}, source : SourceValues,
            publishedAt : TimeValues] : Deviations(a) <= 1}

RECURSIVE SeqsUpTo(_, _)
SeqsUpTo(S, n) ==
    IF n = 0 THEN {<<>>}
    ELSE LET shorter == SeqsUpTo(S, n - 1)
         IN  shorter \cup {Append(s, x) : s \in {q \in shorter : Len(q) = n - 1}, x \in S}

ArticleLists == SeqsUpTo(RawArticles, MaxArticles)

\* JSON bodies of a 200 response: with an "articles" list, or without the key
ResponseBodies ==
    {[articles |-> List(l)] : l \in ArticleLists} \cup {[articles |-> Absent]}

ApiKeys == {"", "k3y"}
StatusCodes == {200, 401, 429, 500}

\* values of the custom URL text input
Urls == {"", "http://news/x"}

\* what lines 108-113 yield for a URL: an exception raised by one of the
\* steps (import, download and parse, concatenation and scoring), or an
\* extracted title and body text
ExtractFailures == {"ImportError", "ArticleException", "TypeError"}
ExtractedTitles == {EmptyStr, Str(<<"up">>), Str(<<"down">>)}
ExtractedTexts == {EmptyStr, Str(<<"dip">>), Str(<<"crash">>)}
Extractions ==
    {[fail |-> f, title |-> EmptyStr, text |-> EmptyStr] : f \in ExtractFailures}
    \cup {[fail |-> "none", title |-> ti, text |-> te] :
            ti \in ExtractedTitles, te \in ExtractedTexts}

----------------------------------------------------------------------------
(* Sentiment scoring *)

\* 0.05 in hundredths
Threshold == 5
\* stand-in for the analyzer's lexicon: the valence of a word
Valence(w) ==
    CASE w = "up" -> 6
      [] w = "down" -> -4
      [] w = "dip" -> -1
      [] w = "crash" -> -12
      [] OTHER -> 0

RECURSIVE SumValence(_)
SumValence(words) ==
    IF words = <<>> THEN 0 ELSE Valence(Head(words)) + SumValence(Tail(words))

\* analyzer.polarity_scores(text)["compound"]: a pure function of the text
Compound(text) == SumValence(text.v)

\* line 39 with >= for >
SentimentClassInclusive(c) ==
    IF c >= Threshold THEN "positive"
    ELSE IF c < -Threshold THEN "negative" ELSE "neutral"

\* line 39
SentimentClass(c) ==
    IF c > Threshold THEN "positive"
    ELSE IF c < -Threshold THEN "negative" ELSE "neutral"

\* line 114
SentimentLabel(c) ==
    IF c > Threshold THEN "positive"
    ELSE IF c < -Threshold THEN "negative" ELSE "neutral"

----------------------------------------------------------------------------
(* Record building, lines 36-48 *)

Space == Str(<<" ">>)

\* line 37 scoring the title as the table displays it
ContentDisplayed(article) ==
    Concat(Or(Get(article.title), Str(<<"View Article">>)),
           Concat(Str(<<" ">>), Or(Get(article.description), EmptyStr)))

\* line 37
Content(article) ==
    Concat(Or(Get(article.title), EmptyStr),
           Concat(Space, Or(Get(article.description), EmptyStr)))

\* line 46, first .get: article.get("source", {})
SourceOf(article) == GetDefault(article.source, Dict(Absent))

\* line 46 raises AttributeError when the source is None
RecordRaises(article) == SourceOf(article) = None

\* lines 40-48
Record(article) ==
    [Title |-> Get(article.title),
     Description |-> Get(article.description),
     URL |-> Get(article.url),
     Sentiment |-> SentimentClass(Compound(Content(article))),
     Compound |-> Compound(Content(article)),
     Source |-> GetDefault(SourceOf(article).name, EmptyStr),
     PublishedAt |-> Get(article.publishedAt)]

----------------------------------------------------------------------------
(* Table, lines 54-61 *)

\* an f-string field: str(x)
Format(x) == IF x = None THEN Str(<<"None">>) ELSE x

Fallback == Str(<<"View Article">>)

\* lines 54-55
make_clickable(link, text) ==
    Str(<<"<a href='">> \o Format(link).v \o <<"' target='_blank'>">>
        \o Format(text).v \o <<"</a>">>)

\* line 58, the lambda applied to one row
Clickable(row) ==
    make_clickable(row.URL, IF Truthy(row.Title) THEN row.Title ELSE Fallback)

\* lines 57-58
Styled(frame) ==
    [i \in 1..Len(frame) |-> [frame[i] EXCEPT !.Title = Clickable(frame[i])]]

----------------------------------------------------------------------------
(* Distribution, line 65 *)

Labels == {"positive", "negative", "neutral"}

\* df["Sentiment"].value_counts(): the count of every label that occurs
ValueCounts(frame) ==
    LET n(l) == Cardinality({i \in 1..Len(frame) : frame[i].Sentiment = l})
    IN  {[Sentiment |-> l, Count |-> n(l)] : l \in {m \in Labels : n(m) > 0}}

----------------------------------------------------------------------------
(* Timestamps, lines 89-90 *)

\* the instant an ISO-8601 text denotes, as a day number; 0 when the text
\* is no timestamp
ParseIso(s) ==
    CASE s = <<"2024-01-01T00:00:00Z">> -> 1
      [] s = <<"2024-01-02T00:00:00Z">> -> 2
      [] OTHER -> 0

\* errors="coerce", which line 89 does not pass
ParseRaisesCoerce(x) == FALSE

\* pd.to_datetime raises on a text that is no timestamp
ParseRaises(x) == x.t = "str" /\ ParseIso(x.v) = 0

\* pd.to_datetime on one value: a text is parsed, None becomes NaT, a
\* date-time stays as it is
ToDatetime(x) ==
    IF x.t = "str" THEN Datetime(ParseIso(x.v))
    ELSE IF x = None THEN NaT ELSE x

\* line 89
WithDatetimes(frame) ==
    [i \in 1..Len(frame) |->
        [frame[i] EXCEPT !.PublishedAt = ToDatetime(frame[i].PublishedAt)]]

\* the order of sort_values: ascending, NaT last
Before(a, b) ==
    \/ b = NaT
    \/ a # NaT /\ b # NaT /\ a.v <= b.v

Orderings(n) ==
    {p \in [1..n -> 1..n] : \A i, j \in 1..n : i # j => p[i] # p[j]}

\* line 90: df.sort_values("Published At") returns a new frame; the default
\* sort is not stable, so rows with equal keys come in any order
SortedFrames(frame) ==
    {[i \in 1..Len(frame) |-> frame[p[i]]] : p \in
        {q \in Orderings(Len(frame)) :
            \A i, j \in 1..Len(frame) :
                i < j => Before(frame[q[i]].PublishedAt, frame[q[j]].PublishedAt)}}

----------------------------------------------------------------------------
(* CSV export, line 101 *)

\* to_csv writes None and NaT as an empty field
CsvField(x) == IF x = None \/ x = NaT THEN EmptyStr ELSE x

CsvHeader ==
    <<"Title", "Description", "URL", "Sentiment", "Compound", "Source",
      "Published At">>

CsvRow(row) ==
    <<CsvField(row.Title), CsvField(row.Description), CsvField(row.URL),
      row.Sentiment, row.Compound, CsvField(row.Source),
      CsvField(row.PublishedAt)>>

\* df.to_csv(index=False)
ToCsv(frame) == [header |-> CsvHeader, rows |-> [i \in 1..Len(frame) |-> CsvRow(frame[i])]]

NoCsv == [header |-> <<>>, rows |-> <<>>]
NoAnalysis == [state |-> "none"]

----------------------------------------------------------------------------
(* The render pass *)

Init ==
    /\ pc = "start"
    /\ api_key \in ApiKeys
    /\ status_code = 0
    /\ requests = 0
    /\ articles = <<>>
    /\ data = <<>>
    /\ scored = <<>>
    /\ df = <<>>
    /\ styled_df = <<>>
    /\ sentiment_counts = {}
    /\ df_sorted = <<>>
    /\ csv = NoCsv
    /\ custom_url = ""
    /\ analysis = NoAnalysis
    /\ rendered = <<>>
    /\ error = "none"

\* an exception nothing catches: Streamlit shows it and the pass ends
Raise(exception, shown) ==
    /\ error' = exception
    /\ rendered' = rendered \o shown \o <<"exception">>
    /\ pc' = "crashed"

\* lines 7-15 without the st.stop() of line 15
CheckKeyNoStop ==
    /\ pc = "start"
    /\ rendered' = rendered \o (IF api_key = "" THEN <<"title", "warning">> ELSE <<"title">>)
    /\ pc' = "fetch"
    /\ UNCHANGED <<api_key, status_code, requests, articles, data, scored, df,
                   styled_df, sentiment_counts, df_sorted, csv, custom_url,
                   analysis, error>>

\* lines 7-15
CheckKey ==
    /\ pc = "start"
    /\ IF api_key = ""
       THEN /\ rendered' = rendered \o <<"title", "warning">>
            /\ pc' = "stopped"
       ELSE /\ rendered' = rendered \o <<"title">>
            /\ pc' = "fetch"
    /\ UNCHANGED <<api_key, status_code, requests, articles, data, scored, df,
                   styled_df, sentiment_counts, df_sorted, csv, custom_url,
                   analysis, error>>

\* lines 18-33 without the st.stop() of line 30
FetchNoStop ==
    /\ pc = "fetch"
    /\ requests' = requests + 1
    /\ \E status \in StatusCodes, body \in ResponseBodies :
        /\ status_code' = status
        /\ rendered' = IF status # 200 THEN Append(rendered, "error") ELSE rendered
        /\ articles' = GetDefault(body.articles, List(<<>>)).v
        /\ pc' = "build"
    /\ UNCHANGED <<api_key, data, scored, df, styled_df, sentiment_counts,
                   df_sorted, csv, custom_url, analysis, error>>

\* lines 18-33: the request answers with a status
Fetch ==
    /\ pc = "fetch"
    /\ requests' = requests + 1
    /\ \E status \in StatusCodes, body \in ResponseBodies :
        /\ status_code' = status
        /\ IF status # 200
           THEN /\ rendered' = Append(rendered, "error")
                /\ pc' = "stopped"
                /\ UNCHANGED articles
           ELSE /\ articles' = GetDefault(body.articles, List(<<>>)).v
                /\ pc' = "build"
                /\ UNCHANGED rendered
    /\ UNCHANGED <<api_key, data, scored, df, styled_df, sentiment_counts,
                   df_sorted, csv, custom_url, analysis, error>>

\* line 27: requests.get raises (no connection)
FetchRaises ==
    /\ pc = "fetch"
    /\ requests' = requests + 1
    /\ Raise("ConnectionError", <<>>)
    /\ UNCHANGED <<api_key, status_code, articles, data, scored, df, styled_df,
                   sentiment_counts, df_sorted, csv, custom_url, analysis>>

\* lines 36-48: one iteration of the loop
BuildRecord ==
    /\ pc = "build"
    /\ Len(data) < Len(articles)
    /\ LET article == articles[Len(data) + 1]
       IN  /\ scored' = Append(scored, Content(article))
           /\ IF RecordRaises(article)
              THEN /\ Raise("AttributeError", <<>>)
                   /\ UNCHANGED data
              ELSE /\ data' = Append(data, Record(article))
                   /\ UNCHANGED <<pc, rendered, error>>
    /\ UNCHANGED <<api_key, status_code, requests, articles, df, styled_df,
                   sentiment_counts, df_sorted, csv, custom_url, analysis>>

\* line 50 with the timestamps parsed as the frame is made
MakeFrameParsed ==
    /\ pc = "build"
    /\ Len(data) = Len(articles)
    /\ IF \E i \in 1..Len(data) : ParseRaises(data[i].PublishedAt)
       THEN /\ Raise("DateParseError", <<>>)
            /\ UNCHANGED df
       ELSE /\ df' = WithDatetimes(data)
            /\ pc' = "table"
            /\ UNCHANGED <<rendered, error>>
    /\ UNCHANGED <<api_key, status_code, requests, articles, data, scored,
                   styled_df, sentiment_counts, df_sorted, csv, custom_url,
                   analysis>>

\* line 50, after the loop
MakeFrame ==
    /\ pc = "build"
    /\ Len(data) = Len(articles)
    /\ df' = data
    /\ pc' = "table"
    /\ UNCHANGED <<api_key, status_code, requests, articles, data, scored,
                   styled_df, sentiment_counts, df_sorted, csv, custom_url,
                   analysis, rendered, error>>

\* lines 53-61.  A frame of no rows has no columns: line 58 raises
\* ValueError, or (older pandas) line 61 raises KeyError
ShowTable ==
    /\ pc = "table"
    /\ IF df = <<>>
       THEN /\ \/ Raise("ValueError", <<"subheader_articles">>)
               \/ Raise("KeyError", <<"subheader_articles", "caption">>)
            /\ UNCHANGED styled_df
       ELSE /\ styled_df' = Styled(df)
            /\ rendered' = rendered \o <<"subheader_articles", "caption", "table">>
            /\ pc' = "pie"
            /\ UNCHANGED error
    /\ UNCHANGED <<api_key, status_code, requests, articles, data, scored, df,
                   sentiment_counts, df_sorted, csv, custom_url, analysis>>

\* lines 64-74
ShowPie ==
    /\ pc = "pie"
    /\ sentiment_counts' = ValueCounts(df)
    /\ rendered' = rendered \o <<"subheader_distribution", "pie">>
    /\ pc' = "bar"
    /\ UNCHANGED <<api_key, status_code, requests, articles, data, scored, df,
                   styled_df, df_sorted, csv, custom_url, analysis, error>>

\* lines 77-85
ShowBar ==
    /\ pc = "bar"
    /\ rendered' = rendered \o <<"subheader_scores", "bar">>
    /\ pc' = "dates"
    /\ UNCHANGED <<api_key, status_code, requests, articles, data, scored, df,
                   styled_df, sentiment_counts, df_sorted, csv, custom_url,
                   analysis, error>>

\* lines 88-89
ParseDates ==
    /\ pc = "dates"
    /\ IF \E i \in 1..Len(df) : ParseRaises(df[i].PublishedAt)
       THEN /\ Raise("DateParseError", <<"subheader_time">>)
            /\ UNCHANGED df
       ELSE /\ df' = WithDatetimes(df)
            /\ rendered' = Append(rendered, "subheader_time")
            /\ pc' = "sort"
            /\ UNCHANGED error
    /\ UNCHANGED <<api_key, status_code, requests, articles, data, scored,
                   styled_df, sentiment_counts, df_sorted, csv, custom_url,
                   analysis>>

\* line 90 sorting df itself (inplace=True)
SortByDateInPlace ==
    /\ pc = "sort"
    /\ df_sorted' \in SortedFrames(df)
    /\ df' = df_sorted'
    /\ pc' = "line"
    /\ UNCHANGED <<api_key, status_code, requests, articles, data, scored,
                   styled_df, sentiment_counts, csv, custom_url, analysis,
                   rendered, error>>

\* line 90
SortByDate ==
    /\ pc = "sort"
    /\ df_sorted' \in SortedFrames(df)
    /\ pc' = "line"
    /\ UNCHANGED <<api_key, status_code, requests, articles, data, scored, df,
                   styled_df, sentiment_counts, csv, custom_url, analysis,
                   rendered, error>>

\* lines 91-98
ShowLine ==
    /\ pc = "line"
    /\ rendered' = Append(rendered, "line")
    /\ pc' = "download"
    /\ UNCHANGED <<api_key, status_code, requests, articles, data, scored, df,
                   styled_df, sentiment_counts, df_sorted, csv, custom_url,
                   analysis, error>>

\* line 101
Download ==
    /\ pc = "download"
    /\ csv' = ToCsv(df)
    /\ rendered' = Append(rendered, "download")
    /\ pc' = "url"
    /\ UNCHANGED <<api_key, status_code, requests, articles, data, scored, df,
                   styled_df, sentiment_counts, df_sorted, custom_url,
                   analysis, error>>

\* lines 104-106
AskUrl ==
    /\ pc = "url"
    /\ \E u \in Urls :
        /\ custom_url' = u
        /\ pc' = IF u = "" THEN "done" ELSE "analyze"
    /\ rendered' = rendered \o <<"subheader_url", "url_input">>
    /\ UNCHANGED <<api_key, status_code, requests, articles, data, scored, df,
                   styled_df, sentiment_counts, df_sorted, csv, analysis,
                   error>>

\* lines 107-121 without the except clause of line 120
AnalyzeUrlUncaught ==
    /\ pc = "analyze"
    /\ \E x \in Extractions :
        IF x.fail # "none"
        THEN /\ Raise(x.fail, <<>>)
             /\ UNCHANGED <<scored, analysis>>
        ELSE LET article_text == Concat(x.title, Concat(Space, x.text))
                 compound == Compound(article_text)
             IN  /\ scored' = Append(scored, article_text)
                 /\ analysis' = [state |-> "ok", title |-> x.title,
                                 compound |-> compound,
                                 sentiment_label |-> SentimentLabel(compound),
                                 text |-> x.text]
                 /\ rendered' = rendered \o <<"url_title", "url_sentiment", "url_expander">>
                 /\ pc' = "done"
                 /\ UNCHANGED error
    /\ UNCHANGED <<api_key, status_code, requests, articles, data, df,
                   styled_df, sentiment_counts, df_sorted, csv, custom_url>>

\* lines 107-121
AnalyzeUrl ==
    /\ pc = "analyze"
    /\ \E x \in Extractions :
        IF x.fail # "none"
        THEN /\ analysis' = [state |-> "failed", reason |-> x.fail]
             /\ rendered' = Append(rendered, "url_error")
             /\ UNCHANGED scored
        ELSE LET article_text == Concat(x.title, Concat(Space, x.text))
                 compound == Compound(article_text)
             IN  /\ scored' = Append(scored, article_text)
                 /\ analysis' = [state |-> "ok", title |-> x.title,
                                 compound |-> compound,
                                 sentiment_label |-> SentimentLabel(compound),
                                 text |-> x.text]
                 /\ rendered' = rendered \o <<"url_title", "url_sentiment", "url_expander">>
    /\ pc' = "done"
    /\ UNCHANGED <<api_key, status_code, requests, articles, data, df,
                   styled_df, sentiment_counts, df_sorted, csv, custom_url,
                   error>>

\* the next page load or interaction runs the script again from the top
Rerun ==
    /\ pc \in {"stopped", "crashed", "done"}
    /\ pc' = "start"
    /\ api_key' \in ApiKeys
    /\ status_code' = 0
    /\ requests' = 0
    /\ articles' = <<>>
    /\ data' = <<>>
    /\ scored' = <<>>
    /\ df' = <<>>
    /\ styled_df' = <<>>
    /\ sentiment_counts' = {}
    /\ df_sorted' = <<>>
    /\ csv' = NoCsv
    /\ custom_url' = ""
    /\ analysis' = NoAnalysis
    /\ rendered' = <<>>
    /\ error' = "none"

Next ==
    \/ CheckKey
    \/ Fetch
    \/ FetchRaises
    \/ BuildRecord
    \/ MakeFrame
    \/ ShowTable
    \/ ShowPie
    \/ ShowBar
    \/ ParseDates
    \/ SortByDate
    \/ ShowLine
    \/ Download
    \/ AskUrl
    \/ AnalyzeUrl
    \/ Rerun

Spec == Init /\ [][Next]_vars

----------------------------------------------------------------------------
(* Properties *)

Elems(seq) == {seq[i] : i \in 1..Len(seq)}

\* positions of the script after line 89 has completed
PastParse == {"sort", "line", "download", "url", "analyze", "done"}

\* positions of the script after line 90 has completed
PastSort == {"line", "download", "url", "analyze", "done"}

\* the threshold rule of the data model, on hundredths
RuleHolds(c, label) ==
    /\ label \in {"positive", "negative", "neutral"}
    /\ (label = "positive") <=> (c > 5)
    /\ (label = "negative") <=> (c < -5)
    /\ (label = "neutral") <=> (c >= -5 /\ c <= 5)

\* C1: every compound score, in a batch record and in the single-URL
\* result, carries exactly the label of the threshold rule: positive iff
\* above 0.05, negative iff below -0.05, neutral otherwise (0.05 and -0.05
\* included).
C1_LabelRule ==
    /\ \A i \in 1..Len(data) : RuleHolds(data[i].Compound, data[i].Sentiment)
    /\ analysis.state = "ok" => RuleHolds(analysis.compound, analysis.sentiment_label)

\* both boundary scores occur: -0.05 in a batch record, 0.05 in the
\* single-URL result, together with a positive and a negative record
C1_Witness ==
    /\ pc = "done"
    /\ analysis.state = "ok" /\ analysis.compound = 5
    /\ \E i, j \in 1..Len(data) : data[i].Compound = -5 /\ data[j].Compound > 5

\* C2: a pass with an empty API key shows the warning and stops: no request
\* is issued and nothing is rendered below the warning.
C2_EmptyKeyHalts ==
    (api_key = "" /\ pc # "start") =>
        /\ pc = "stopped"
        /\ rendered = <<"title", "warning">>
        /\ requests = 0 /\ status_code = 0
        /\ articles = <<>> /\ data = <<>> /\ scored = <<>>
        /\ styled_df = <<>> /\ csv = NoCsv /\ analysis = NoAnalysis
        /\ error = "none"

C2_Witness == api_key = "" /\ pc = "stopped" /\ "warning" \in Elems(rendered)

\* C3: a pass whose response has a status other than 200 shows the error
\* and stops: the body is not parsed, no record is built, nothing further is
\* rendered and the request is issued once.
C3_Non200Halts ==
    status_code \notin {0, 200} =>
        /\ pc = "stopped"
        /\ rendered = <<"title", "error">>
        /\ requests = 1
        /\ articles = <<>> /\ data = <<>> /\ scored = <<>> /\ df = <<>>
        /\ styled_df = <<>> /\ csv = NoCsv /\ analysis = NoAnalysis
        /\ error = "none"

C3_Witness == status_code = 401 /\ pc = "stopped" /\ "error" \in Elems(rendered)

\* C4: a failure of the single-URL analysis is caught: the pass ends
\* normally with an inline error that carries the failure's description, and
\* the records, the frames, the CSV payload and everything rendered before
\* the analysis are left as they were.
C4_AnalysisErrorLocal ==
    [][pc = "analyze" =>
         /\ pc' = "done" /\ error' = "none"
         /\ UNCHANGED <<articles, data, df, styled_df, sentiment_counts,
                        df_sorted, csv>>
         /\ SubSeq(rendered', 1, Len(rendered)) = rendered
         /\ analysis'.state \in {"ok", "failed"}
         /\ analysis'.state = "failed" =>
                /\ analysis'.reason \in ExtractFailures
                /\ rendered' = Append(rendered, "url_error")
                /\ scored' = scored]_vars

C4_Witness ==
    /\ pc = "done" /\ analysis.state = "failed"
    /\ analysis.reason = "ArticleException"
    /\ Len(df) = MaxArticles
    /\ {"table", "pie", "bar", "line", "download", "url_error"} \subseteq Elems(rendered)

\* C5: after a 200 response, once record building is over (the frame is
\* made or the pass has ended), there is one record per raw article and the
\* i-th record is the one built from the i-th article.
C5_OneRecordPerArticle ==
    (status_code = 200 /\ pc # "build") =>
        /\ Len(data) = Len(articles)
        /\ \A i \in 1..Len(data) : data[i] = Record(articles[i])

\* C6: an article without a title (absent, null or empty) is displayed with
\* the fallback "View Article" as its link text, and the text scored for it
\* is the empty title, a space and the description: the fallback is no part
\* of it.
C6_FallbackDisplayOnly ==
    \A i \in 1..Len(articles) :
        articles[i].title \in {Absent, None, EmptyStr} =>
            /\ i <= Len(styled_df) =>
                   styled_df[i].Title =
                       Str(<<"<a href='">> \o articles[i].url.v
                           \o <<"' target='_blank'>", "View Article", "</a>">>)
            /\ i <= Len(scored) =>
                   /\ scored[i] =
                          Str(<<" ">> \o (IF articles[i].description \in {Absent, None}
                                          THEN <<>> ELSE articles[i].description.v))
                   /\ "View Article" \notin Elems(scored[i].v)
            /\ i <= Len(data) =>
                   data[i].Compound = Compound(scored[i])

C6_Witness ==
    /\ pc = "pie"
    /\ \E i \in 1..Len(styled_df) :
        /\ articles[i].title = Absent
        /\ "View Article" \in Elems(styled_df[i].Title.v)

\* C7: after the sort, the canonical frame df still lists the records in the
\* order they were built (it is the order of the CSV export), and df_sorted
\* is a permutation of df's rows, ascending by timestamp.
C7_SortIsDerivedCopy ==
    pc \in PastSort =>
        /\ Len(df) = Len(data)
        /\ \A i \in 1..Len(df) :
            [df[i] EXCEPT !.PublishedAt = data[i].PublishedAt] = data[i]
        /\ csv # NoCsv => csv.rows = [i \in 1..Len(df) |-> CsvRow(df[i])]
        /\ \E p \in Orderings(Len(df)) :
            df_sorted = [i \in 1..Len(df) |-> df[p[i]]]
        /\ \A i, j \in 1..Len(df_sorted) :
            i < j => Before(df_sorted[i].PublishedAt, df_sorted[j].PublishedAt)

\* the sort really reorders: the later article came first
C7_Witness ==
    /\ pc = "done"
    /\ Len(df) = MaxArticles
    /\ df[1].PublishedAt = Datetime(2)
    /\ df_sorted[1].PublishedAt = Datetime(1)
    /\ df_sorted # df

C9_MissingFieldsNeverFail ==
    status_code = 200 =>
        /\ error # "AttributeError"
        /\ \A i \in 1..Len(articles) :
            i <= Len(scored) =>
                scored[i] =
                    Str((IF articles[i].title \in {Absent, None} THEN <<>>
                         ELSE articles[i].title.v)
                        \o <<" ">>
                        \o (IF articles[i].description \in {Absent, None} THEN <<>>
                            ELSE articles[i].description.v))

\* C10: the timestamps are parsed only once the table, the distribution
\* chart and the bar chart are on the page; a pass that ends in the parse
\* error has rendered those three and neither the line chart, the CSV
\* export nor the single-URL section.
C10_ParseAfterCharts ==
    /\ (\E i \in 1..Len(df) : df[i].PublishedAt.t \in {"datetime", "NaT"}) =>
            {"table", "pie", "bar"} \subseteq Elems(rendered)
    /\ error = "DateParseError" =>
        /\ \E k \in 1..Len(rendered) :
            /\ SubSeq(rendered, 1, k) =
                   <<"title", "subheader_articles", "caption", "table",
                     "subheader_distribution", "pie", "subheader_scores", "bar">>
            /\ Elems(SubSeq(rendered, k + 1, Len(rendered)))
                   \subseteq {"subheader_time", "exception"}
        /\ df_sorted = <<>> /\ csv = NoCsv
        /\ custom_url = "" /\ analysis = NoAnalysis

C10_Witness ==
    /\ pc = "crashed" /\ error = "DateParseError"
    /\ {"table", "pie", "bar"} \subseteq Elems(rendered)
    /\ Len(df) = MaxArticles

====
